---- MODULE Spec2Model ----
(***************************************************************************)
(* Model of src/hw10/apply_review_allocation_cf.py: the mask-driven fill   *)
(* updater.  A run of main() is a sequence of steps over a file system;    *)
(* Python strings are sequences of one-character strings, so that strip()  *)
(* and lower() are computed and not assumed.  A second part models the     *)
(* cargo_flow constraints of src/project/project_2_form.py.                *)
(***************************************************************************)
EXTENDS Integers, Sequences, FiniteSets, TLC

VARIABLES
    fs,           \* the files on disk: path -> file
    now,          \* int(time.time()), in seconds
    runs,         \* number of runs of main() started so far
    pc,           \* position of the current run in main()
    args,         \* the parsed command line of the current run
    mask_df,      \* the mask grid read by pd.read_csv
    mask_bool,    \* mask_df.applymap(is_one)
    wb,           \* the workbook loaded by load_workbook, mutated in place
    backup_path,  \* the backup path chosen by the current run
    out,          \* the messages printed by the current run
    exit,         \* <<status>> once the current run has exited, <<>> before
    consulted,    \* per sheet cell, the mask_bool index read at line 135
    ops,          \* the file-system calls of the current run, in order
    fs0,          \* history: the files on disk when the current run started
    prev,         \* history: the last successful run
    backups,      \* history: the backup files written by earlier runs
    cf_failed,    \* history: clearing the conditional formatting raised (line 105)
    now0,         \* history: the clock when the current run started
    v,            \* is_one under test: its argument
    ret,          \* is_one under test: its result
    lp,           \* project_2_form.py: the cargo_flow loop and the constraints added
    cand          \* a candidate assignment of X and W, and whether it is feasible

vars == <<fs, now, runs, pc, args, mask_df, mask_bool, wb, backup_path, out,
          exit, consulted, ops, fs0, prev, backups, cf_failed, now0, v, ret, lp, cand>>

runVars == <<fs, now, runs, pc, args, mask_df, mask_bool, wb, backup_path, out,
             exit, consulted, ops, fs0, prev, backups, cf_failed, now0>>

(***************************************************************************)
(* Bounds of the model.                                                    *)
(***************************************************************************)
MaxRow == 2       \* rows of the sheet (ws.max_row)
MaxCol == 2       \* columns of the sheet (ws.max_column)
MaxOffset == 1    \* --mask-col-offset ranges over -MaxOffset..MaxOffset
MaxRuns == 2      \* runs of main() in one behaviour
MaxClock == 1     \* the clock ranges over 0..MaxClock
NumSheets == 1    \* sheets of the workbook
MaxLen == 3       \* length of the strings is_one is tested on
MaxDev == 1       \* distance of a candidate X or W from its reference value

(***************************************************************************)
(* Python strings and values.                                              *)
(***************************************************************************)
sEmpty   == <<>>
sOne     == <<"1">>
sOnePad  == <<" ", "1", " ">>
sOneDot  == <<"1", ".", "0">>
sZero    == <<"0">>
sNan     == <<"n", "a", "n">>
sNone    == <<"N", "o", "n", "e">>
sYes     == <<"y", "e", "s">>
sYesCap  == <<"Y", "e", "s">>
sNoPad   == <<" ", "N", "O", " ">>
sNo      == <<"n", "o">>
sMaybe   == <<"m", "a", "y", "b", "e">>
sConflict == <<"c", "o", "n", "f", "l", "i", "c", "t">>
sOther   == <<"x">>

\* A Python value: a str, an int, a float n.0, the float NaN, or None.
StrV(s)   == [k |-> "str",   s |-> s,     n |-> 0]
IntV(n)   == [k |-> "int",   s |-> <<>>,  n |-> n]
FloatV(n) == [k |-> "float", s |-> <<>>,  n |-> n]
NaN       == [k |-> "nan",   s |-> <<>>,  n |-> 0]
None      == [k |-> "none",  s |-> <<>>,  n |-> 0]

Digit(n) == CASE n = 0 -> "0" [] n = 1 -> "1" [] n = 2 -> "2" [] n = 3 -> "3"
              [] n = 4 -> "4" [] n = 5 -> "5" [] n = 6 -> "6" [] n = 7 -> "7"
              [] n = 8 -> "8" [] OTHER -> "9"

\* str(x), for the values above (ints and floats of one digit).
PyStr(x) ==
    CASE x.k = "str"   -> x.s
      [] x.k = "int"   -> <<Digit(x.n)>>
      [] x.k = "float" -> <<Digit(x.n), ".", "0">>
      [] x.k = "nan"   -> sNan
      [] OTHER         -> sNone

IsSpace(ch) == ch \in {" ", "\t", "\n"}

RECURSIVE LStrip(_)
LStrip(s) ==
    IF s # <<>> /\ IsSpace(Head(s)) THEN LStrip(Tail(s)) ELSE s

RECURSIVE RStrip(_)
RStrip(s) ==
    IF s # <<>> /\ IsSpace(s[Len(s)]) THEN RStrip(SubSeq(s, 1, Len(s) - 1)) ELSE s

\* str.strip()
Strip(s) == RStrip(LStrip(s))

LowerChar(ch) ==
    CASE ch = "Y" -> "y" [] ch = "E" -> "e" [] ch = "S" -> "s"
      [] ch = "N" -> "n" [] ch = "O" -> "o" [] ch = "X" -> "x"
      [] OTHER -> ch

\* str.lower()
Lower(s) == [i \in 1..Len(s) |-> LowerChar(s[i])]

\* pd.isna(x)
IsNa(x) == x.k \in {"nan", "none"}

is_one_nostrip(x) ==
    IF IsNa(x) THEN FALSE ELSE PyStr(x) = sOne

\* is_one, lines 70-77
is_one(x) ==
    IF IsNa(x) THEN FALSE ELSE Strip(PyStr(x)) = sOne

(***************************************************************************)
(* Fills and the colour table.                                             *)
(***************************************************************************)
PatternFill(t, c) == [fill_type |-> t, fgColor |-> c]
empty_fill == PatternFill("none", "00000000")
Blue == PatternFill("solid", "FF0000FF")

color_keys == {sYes, sNo, sMaybe, sConflict}

color_map(s) ==
    CASE s = sYes      -> "FFC6EFCE"
      [] s = sNo       -> "FFFFC7CE"
      [] s = sMaybe    -> "FFFFEB9C"
      [] OTHER         -> "FFD9D9D9"

pick_fill_nonormalize(x) ==
    IF x.k = "none" THEN empty_fill
    ELSE IF PyStr(x) \in color_keys
         THEN PatternFill("solid", color_map(PyStr(x)))
         ELSE empty_fill

\* pick_fill_for_cell_value, lines 120-126
pick_fill_for_cell_value(x) ==
    IF x.k = "none" THEN empty_fill
    ELSE LET s == Lower(Strip(PyStr(x)))
         IN  IF s \in color_keys
             THEN PatternFill("solid", color_map(s))
             ELSE empty_fill

(***************************************************************************)
(* Paths: a file name is the sequence of its dot-separated parts, so       *)
(* a.xlsx is <<"a", "xlsx">>.  The empty sequence is None (and ""), both   *)
(* false at line 147.                                                      *)
(***************************************************************************)
NoPath == <<>>
pA    == <<"a", "xlsx">>
pB    == <<"b", "xlsx">>
pMask == <<"m", "csv">>
pNoMask == <<"nomask", "csv">>

\* Path.stem: the name without its last suffix
Stem(p) == IF Len(p) > 1 THEN SubSeq(p, 1, Len(p) - 1) ELSE p

\* input_xlsx.with_suffix('.bak.xlsx'), line 153
DefaultBackup(p) == Stem(p) \o <<"bak", "xlsx">>

\* input_xlsx.with_name(input_xlsx.stem + f'.bak.{ts}.xlsx'), line 157
StampedBackup(p, ts) == Stem(p) \o <<"bak", ToString(ts), "xlsx">>

\* lines 153-157: the backup path, given the files on disk and the clock
ChooseBackup(p, files, ts) ==
    IF DefaultBackup(p) \in DOMAIN files THEN StampedBackup(p, ts)
    ELSE DefaultBackup(p)

(***************************************************************************)
(* Files.  gen identifies the bytes: 0 for a file that was on disk before  *)
(* the first run, k for a file serialised by wb.save in run k (every save  *)
(* writes new bytes); shutil.copy2 copies the bytes, gen included.         *)
(***************************************************************************)
XlsxFile(g, sheets) == [kind |-> "xlsx", gen |-> g, sheets |-> sheets, grid |-> <<>>]
CsvFile(grid) == [kind |-> "csv", gen |-> 0, sheets |-> <<>>, grid |-> grid]
PartialFile(g) == [kind |-> "partial", gen |-> g, sheets |-> <<>>, grid |-> <<>>]

Put(files, p, f) == [q \in DOMAIN files \cup {p} |-> IF q = p THEN f ELSE files[q]]

\* A grid of rows x cols cells, a on the cells with r + c even and b on the others.
Checker(rows, cols, a, b) ==
    [r \in 1..rows |-> [c \in 1..cols |-> IF (r + c) % 2 = 0 THEN a ELSE b]]

Sheet(value, fill, cf) == [value |-> value, fill |-> fill, cf |-> cf]

\* ws.max_row, ws.max_column (lines 90-91)
max_row(ws) == Len(ws.value)
max_column(ws) == Len(ws.value[1])

(***************************************************************************)
(* pd.read_csv(mask_csv, header=None, dtype=object), line 64.  The file's  *)
(* grid holds the raw fields, a row per line.  Blank lines are skipped.  A  *)
(* file with no other line, a row longer than the first row, and a file    *)
(* that is no text at all raise; a shorter row is padded with NaN and an   *)
(* empty field reads as NaN.                                               *)
(***************************************************************************)
IsBlankLine(row) == row = <<>> \/ row = <<sEmpty>>

CsvRows(f) == SelectSeq(f.grid, LAMBDA row : ~IsBlankLine(row))

CsvParses(f) ==
    /\ f.kind = "csv"
    /\ CsvRows(f) # <<>>
    /\ \A i \in 1..Len(CsvRows(f)) : Len(CsvRows(f)[i]) <= Len(CsvRows(f)[1])

read_csv(f) ==
    LET rows == CsvRows(f)
    IN  [i \in 1..Len(rows) |->
            [j \in 1..Len(rows[1]) |->
                IF j <= Len(rows[i]) /\ rows[i][j] # sEmpty
                THEN StrV(rows[i][j]) ELSE NaN]]

\* mask_df.applymap(is_one), line 81
applymap_is_one(df) ==
    [i \in 1..Len(df) |-> [j \in 1..Len(df[i]) |-> is_one(df[i][j])]]

\* mask_bool.shape, line 92
csv_rows_of(df) == Len(df)
csv_cols_of(df) == Len(df[1])

(***************************************************************************)
(* The cell loop, lines 128-144.                                           *)
(***************************************************************************)
\* line 132
mask_col_index(c, offset) == (c - 1) + offset

in_mask_nolower(r, mci, csv_rows, csv_cols) ==
    (r - 1) < csv_rows /\ mci < csv_cols

\* the guard of line 133
in_mask(r, mci, csv_rows, csv_cols) ==
    (r - 1) < csv_rows /\ mci < csv_cols /\ mci >= 0

\* DataFrame.iat[i, j] on a grid of booleans: zero-based, a negative index
\* counts from the end; an index out of range raises IndexError, which line
\* 136 catches, and the fallback of lines 137-138 then leaves keep False.
IatIndex(i, n) == IF i < 0 THEN i + n ELSE i

iat_keep(grid, i, j) ==
    LET ii == IatIndex(i, Len(grid))
        jj == IatIndex(j, Len(grid[1]))
    IN  IF ii \in 0..(Len(grid) - 1) /\ jj \in 0..(Len(grid[1]) - 1)
        THEN grid[ii + 1][jj + 1] ELSE FALSE

\* lines 130-138: keep, for sheet cell (r, c)
keep_of(r, c, offset, mb) ==
    LET mci == mask_col_index(c, offset)
    IN  IF in_mask(r, mci, csv_rows_of(mb), csv_cols_of(mb))
        THEN iat_keep(mb, r - 1, mci) ELSE FALSE

\* the mask_bool index read at line 135 for sheet cell (r, c), <<>> if none
consulted_of(r, c, offset, mb) ==
    LET mci == mask_col_index(c, offset)
    IN  IF in_mask(r, mci, csv_rows_of(mb), csv_cols_of(mb))
        THEN <<r - 1, mci>> ELSE <<>>

cell_fill_noclear(keep, value, old) ==
    IF keep THEN pick_fill_for_cell_value(value) ELSE old

cell_fill_uses_fill_color(keep, value, old) ==
    IF keep THEN PatternFill("solid", args.fill_color) ELSE empty_fill

cell_fill_toggle(keep, value, old) ==
    IF keep /\ old = empty_fill THEN pick_fill_for_cell_value(value) ELSE empty_fill

\* lines 140-144: the fill assigned to a cell
cell_fill(keep, value, old) ==
    IF keep THEN pick_fill_for_cell_value(value) ELSE empty_fill

\* lines 98-107: clearing the conditional formatting; a failure is swallowed
clear_cf(ws, ok) == Sheet(ws.value, ws.fill, IF ok THEN FALSE ELSE ws.cf)

apply_fills_normalizes_value(ws, offset, mb) ==
    Sheet([r \in 1..max_row(ws) |-> [c \in 1..max_column(ws) |->
              IF ws.value[r][c].k = "none" THEN ws.value[r][c]
              ELSE StrV(Lower(Strip(PyStr(ws.value[r][c]))))]],
          [r \in 1..max_row(ws) |-> [c \in 1..max_column(ws) |->
              cell_fill(keep_of(r, c, offset, mb), ws.value[r][c], ws.fill[r][c])]],
          ws.cf)

\* lines 109-144 on the target sheet
apply_fills(ws, offset, mb) ==
    Sheet(ws.value,
          [r \in 1..max_row(ws) |-> [c \in 1..max_column(ws) |->
              cell_fill(keep_of(r, c, offset, mb), ws.value[r][c], ws.fill[r][c])]],
          ws.cf)

(***************************************************************************)
(* The command line (parse_args, lines 32-48).                             *)
(***************************************************************************)
DefaultColor == "FFFFFF00"
OtherColor == "FFFFEB9C"

Args(i, m, si, off, o, b, fc) ==
    [input_xlsx |-> i, mask_csv |-> m, sheet_index |-> si, mask_col_offset |-> off,
     output_xlsx |-> o, backup |-> b, fill_color |-> fc]

NoArgs == Args(NoPath, NoPath, 0, 0, NoPath, FALSE, DefaultColor)

\* line 147: a given, non-empty --output-xlsx
HasOutput(a) == a.output_xlsx # NoPath

\* the path wb.save writes: line 149 or line 159
OutPath(a) == IF HasOutput(a) THEN a.output_xlsx ELSE a.input_xlsx

Offsets == (0 - MaxOffset)..MaxOffset

\* The command lines of Spec: every combination of input, output and --backup
\* on a valid mask and sheet, a.xlsx in place and to b.xlsx with another
\* --fill-color, and the invalid mask paths and sheet indexes.
ArgsAny ==
    {Args(i, pMask, 0, 0, o, b, DefaultColor) :
        i \in {pA, pB}, o \in {NoPath, pA, pB}, b \in BOOLEAN}
    \cup {Args(pA, pMask, 0, 0, o, FALSE, OtherColor) : o \in {NoPath, pB}}
    \cup {Args(pA, pNoMask, 0, 0, NoPath, FALSE, DefaultColor)}
    \cup {Args(pA, pMask, si, 0, NoPath, FALSE, DefaultColor) : si \in {0 - 1, NumSheets}}

\* The command lines of SpecGrid: every offset and sheet, in place or to b.xlsx.
ArgsGrid ==
    {Args(pA, pMask, si, off, o, FALSE, DefaultColor) :
        si \in 0..(NumSheets - 1), off \in Offsets, o \in {NoPath, pB}}

(***************************************************************************)
(* The state between runs.                                                 *)
(***************************************************************************)
NoWb == [loaded |-> FALSE, sheets |-> <<>>]
NoPrev == [valid |-> FALSE, outpath |-> NoPath, args |-> NoArgs, fill |-> <<>>,
           read |-> <<>>, sheets |-> <<>>, ops |-> <<>>, cf_failed |-> FALSE,
           bak_exists |-> FALSE, now |-> 0]

Op(o, p) == [op |-> o, path |-> p]

\* sheet_names[i], line 88: the position of the sheet in the workbook; as for
\* any Python list, a negative index counts from the end.
sheet_at(si, n) == IF si < 0 THEN si + n + 1 ELSE si + 1

bad_sheet_index_nonneg(si, n) == si >= n

\* the test of line 85
bad_sheet_index(si, n) == si < 0 \/ si >= n

\* What a run leaves for the next one to compare with: whether it succeeded,
\* the file it wrote and the fills of the target sheet in that file, the
\* sheets it read and wrote, its file-system calls, whether clearing the
\* conditional formatting raised, and what lines 155-156 saw in overwrite
\* mode: whether the default backup was on disk and, if it was, the clock.
Summary ==
    IF exit = <<0>>
    THEN [valid |-> TRUE, outpath |-> OutPath(args), args |-> args,
          fill |-> fs[OutPath(args)].sheets[sheet_at(args.sheet_index, NumSheets)].fill,
          read |-> fs0[args.input_xlsx].sheets,
          sheets |-> fs[OutPath(args)].sheets,
          ops |-> ops,
          cf_failed |-> cf_failed,
          bak_exists |-> ~HasOutput(args) /\ DefaultBackup(args.input_xlsx) \in DOMAIN fs0,
          now |-> IF ~HasOutput(args) /\ DefaultBackup(args.input_xlsx) \in DOMAIN fs0
                  THEN now0 ELSE 0]
    ELSE NoPrev

Texts == {None, StrV(sYes), StrV(sYesCap), StrV(sNoPad), StrV(sMaybe),
          StrV(sConflict), StrV(sOther), IntV(1)}
Texts2 == {StrV(sYes), StrV(sOther)}
PriorFills == {empty_fill, Blue}
MaskFields == {sOne, sOnePad, sZero, sEmpty}

Sheets(ws) == [i \in 1..NumSheets |-> ws]

\* The workbook and the masks of Spec: the sheet has one text of each colour,
\* prior fills and conditional formatting; the mask is a grid, an empty file
\* or a file whose second row is longer than its first.
WbFixture ==
    Sheets(Sheet(Checker(MaxRow, MaxCol, StrV(sYesCap), StrV(sNoPad)),
                 Checker(MaxRow, MaxCol, Blue, empty_fill), TRUE))

\* The workbook as it was before an earlier overwrite: no fills yet.
OldFixture ==
    Sheets(Sheet(Checker(MaxRow, MaxCol, StrV(sYesCap), StrV(sNoPad)),
                 Checker(MaxRow, MaxCol, empty_fill, empty_fill), TRUE))

S1Row == <<sOne>>
S2Row == <<sOne, sZero>>

MaskFixtures ==
    {CsvFile(Checker(MaxRow, MaxCol, sOne, sZero)),
     CsvFile(<<>>),
     CsvFile(<<S1Row, S2Row>>)}

(***************************************************************************)
(* src/project/project_2_form.py: the data and the model being built.      *)
(***************************************************************************)
\* Airports A, B, C are 0, 1, 2 and Monday to Friday are 0..4 (lines 12-13).
airports == 0..2
days == 0..4

\* The (i, j, t) the loops over range(3), range(3), range(5) keep: i != j.
Keys == {k \in airports \X airports \X days : k[1] # k[2]}

\* cargo_demand, lines 16-47
cargo_demand ==
    [k \in Keys |->
        CASE k[1] = 0 /\ k[2] = 1 -> <<100, 200, 100, 400, 300>>[k[3] + 1]
          [] k[1] = 0 /\ k[2] = 2 -> 50
          [] k[1] = 1 /\ k[2] = 0 -> 25
          [] k[1] = 1 /\ k[2] = 2 -> 25
          [] k[1] = 2 /\ k[2] = 0 -> 40
          [] OTHER                -> <<400, 200, 300, 200, 400>>[k[3] + 1]]

\* dict.get(key, default)
dict_get(d, key, default) == IF key \in DOMAIN d THEN d[key] ELSE default

\* The decision variables X[i,j,t] and W[i,j,t] (lines 66-79), by name.
XVar(i, j, t) == <<"X", i, j, t>>
WVar(i, j, t) == <<"W", i, j, t>>
Vars == {XVar(k[1], k[2], k[3]) : k \in Keys} \cup {WVar(k[1], k[2], k[3]) : k \in Keys}

\* A gurobipy LinExpr: a list of (coefficient, variable) terms and a constant.
LinExpr == [terms |-> <<>>, const |-> 0]

\* expr += var, expr -= var, expr += number
iadd_var(e, x) == [e EXCEPT !.terms = Append(@, [coef |-> 1, var |-> x])]
isub_var(e, x) == [e EXCEPT !.terms = Append(@, [coef |-> 0 - 1, var |-> x])]
iadd_num(e, n) == [e EXCEPT !.const = @ + n]

\* A constraint: expr (sense) 0
Constr(name, e, sense) == [name |-> name, expr |-> e, sense |-> sense]

\* prev = t - 1 if t > 0 else 4, line 196
prev_day(t) == IF t > 0 THEN t - 1 ELSE 4

\* lines 192-204: cargoExpr of the iteration (i, j, t)
cargoExpr(i, j, t) ==
    LET e1 == iadd_var(LinExpr, XVar(i, j, t))
        e2 == isub_var(e1, XVar(i, j, prev_day(t)))
        demand_val == dict_get(cargo_demand, <<i, j, t>>, 0)
        e3 == iadd_num(e2, demand_val)
    IN  isub_var(e3, WVar(i, j, t))

\* lines 208-223: the nonnegativity and load_limit constraints
bound_constrs ==
    {Constr(<<"nonnegativity", k>>, iadd_var(LinExpr, XVar(k[1], k[2], k[3])), ">=") :
        k \in Keys}
    \cup {Constr(<<"load_limit", k>>,
                 isub_var(iadd_var(LinExpr, WVar(k[1], k[2], k[3])),
                          XVar(k[1], k[2], k[3])), "<=") : k \in Keys}

\* The value of a linear expression under an assignment of the variables.
RECURSIVE TermsValue(_, _)
TermsValue(terms, a) ==
    IF terms = <<>> THEN 0
    ELSE Head(terms).coef * a[Head(terms).var] + TermsValue(Tail(terms), a)

ExprValue(e, a) == TermsValue(e.terms, a) + e.const

\* The assignment a satisfies the constraint c.
Satisfies(a, c) ==
    CASE c.sense = "==" -> ExprValue(c.expr, a) = 0
      [] c.sense = ">=" -> ExprValue(c.expr, a) >= 0
      [] OTHER          -> ExprValue(c.expr, a) <= 0

\* The next (i, j, t) of the nested loops; i = 3 when they are over.
next_pos(pos) ==
    IF pos[3] < 4 THEN <<pos[1], pos[2], pos[3] + 1>>
    ELSE IF pos[2] < 2 THEN <<pos[1], pos[2] + 1, 0>>
    ELSE <<pos[1] + 1, 0, 0>>

\* The model before the cargo_flow loop, and no candidate assignment yet.
NoLp == [phase |-> "cargo_flow", pos |-> <<0, 0, 0>>, cargo_flow |-> {}, bounds |-> {}]
NoCand == [set |-> FALSE, a |-> <<>>, cargo_ok |-> FALSE, bounds_ok |-> FALSE]

\* The largest daily demand of the table.
MaxDemand == CHOOSE n \in {cargo_demand[k] : k \in Keys} :
                 \A k \in Keys : cargo_demand[k] <= n

\* The candidate assignments: on one route W is within MaxDev of the demand
\* and X within MaxDev above a common level; on the other routes W is the
\* demand and X the level.
Candidate(r, x, w) ==
    [var \in Vars |->
        IF <<var[2], var[3]>> = r
        THEN IF var[1] = "X" THEN MaxDemand + MaxDev + x[var[4]]
             ELSE cargo_demand[<<var[2], var[3], var[4]>>] + w[var[4]]
        ELSE IF var[1] = "X" THEN MaxDemand + MaxDev
             ELSE cargo_demand[<<var[2], var[3], var[4]>>]]

\* lines 188-206: one iteration of the cargo_flow loops
CargoFlowStep ==
    /\ lp.phase = "cargo_flow"
    /\ LET i == lp.pos[1]
           j == lp.pos[2]
           t == lp.pos[3]
           n == next_pos(lp.pos)
       IN  lp' = [lp EXCEPT
                    !.cargo_flow = IF i # j
                                   THEN @ \cup {Constr(<<"cargo_flow", lp.pos>>,
                                                       cargoExpr(i, j, t), "==")}
                                   ELSE @,
                    !.pos = n,
                    !.phase = IF n[1] > 2 THEN "bounds" ELSE "cargo_flow"]
    /\ UNCHANGED <<runVars, v, ret, cand>>

\* lines 208-223: the nonnegativity and load_limit loops
BoundsStep ==
    /\ lp.phase = "bounds"
    /\ lp' = [lp EXCEPT !.bounds = bound_constrs, !.phase = "optimize"]
    /\ UNCHANGED <<runVars, v, ret, cand>>

\* line 226: the solver considers an assignment of X and W and tests it
\* against the constraints of the model
Optimize ==
    /\ lp.phase = "optimize"
    /\ ~cand.set
    /\ \E r \in {<<k[1], k[2]>> : k \in Keys},
          x \in [days -> 0..MaxDev],
          w \in [days -> (0 - MaxDev)..MaxDev] :
          LET a == Candidate(r, x, w)
          IN  cand' = [set |-> TRUE, a |-> a,
                       cargo_ok |-> \A c \in lp.cargo_flow : Satisfies(a, c),
                       bounds_ok |-> \A c \in lp.bounds : Satisfies(a, c)]
    /\ UNCHANGED <<runVars, v, ret, lp>>

(***************************************************************************)
(* Initial states.                                                         *)
(***************************************************************************)
InitRun ==
    /\ now = 0
    /\ runs = 0
    /\ pc = "idle"
    /\ args = NoArgs
    /\ mask_df = <<>>
    /\ mask_bool = <<>>
    /\ wb = NoWb
    /\ backup_path = NoPath
    /\ out = <<>>
    /\ exit = <<>>
    /\ consulted = <<>>
    /\ ops = <<>>
    /\ prev = NoPrev
    /\ backups = {}
    /\ fs0 = fs
    /\ cf_failed = FALSE
    /\ now0 = now
    /\ lp = NoLp
    /\ cand = NoCand

\* a.xlsx and m.csv are on disk, b.xlsx and nomask.csv are not, and a.bak.xlsx
\* may be there, left by an overwrite of a.xlsx before the first run.
Init ==
    /\ \E m \in MaskFixtures, old \in BOOLEAN :
          LET files == Put(Put(<<>>, pA, XlsxFile(0, WbFixture)), pMask, m)
          IN  fs = IF old THEN Put(files, DefaultBackup(pA), XlsxFile(0, OldFixture))
                   ELSE files
    /\ InitRun
    /\ v = None
    /\ ret = <<>>

\* Every sheet and mask of the checkerboard family, the mask file one row
\* shorter or longer than the sheet and as wide, or one column narrower or wider.
InitGrid ==
    /\ \E t1 \in Texts, t2 \in Texts2, f \in PriorFills,
          m1 \in MaskFields, m2 \in MaskFields,
          mr \in {MaxRow - 1, MaxRow + 1}, mc \in {MaxCol - 1, MaxCol, MaxCol + 1} :
          fs = Put(Put(<<>>, pA,
                       XlsxFile(0, Sheets(Sheet(Checker(MaxRow, MaxCol, t1, t2),
                                                Checker(MaxRow, MaxCol, f, empty_fill),
                                                FALSE)))),
                   pMask, CsvFile(Checker(mr, mc, m1, m2)))
    /\ InitRun
    /\ v = None
    /\ ret = <<>>

(***************************************************************************)
(* A run of main(), lines 51-160.                                          *)
(***************************************************************************)
Exit(status, msg) ==
    /\ exit' = <<status>>
    /\ out' = Append(out, msg)
    /\ pc' = "done"

\* lines 52-54: a run starts with command line a
Begin(a) ==
    /\ pc \in {"idle", "done"}
    /\ runs < MaxRuns
    /\ runs' = runs + 1
    /\ args' = a
    /\ pc' = "validate"
    /\ mask_df' = <<>>
    /\ mask_bool' = <<>>
    /\ wb' = NoWb
    /\ backup_path' = NoPath
    /\ out' = <<>>
    /\ exit' = <<>>
    /\ consulted' = <<>>
    /\ ops' = <<>>
    /\ fs0' = fs
    /\ prev' = Summary
    /\ cf_failed' = FALSE
    /\ now0' = now
    /\ UNCHANGED <<fs, now, backups, v, ret, lp, cand>>

BeginAny == \E a \in ArgsAny : Begin(a)

BeginGrid == \E a \in ArgsGrid : prev = NoPrev /\ pc = "idle" /\ Begin(a)

\* The same command line again, on the file the run before wrote.
BeginAgain ==
    /\ exit = <<0>>
    /\ prev = NoPrev
    /\ Begin([args EXCEPT !.input_xlsx = OutPath(args)])

\* lines 56-81: the input checks, read_csv and the boolean mask
Validate ==
    /\ pc = "validate"
    /\ IF args.input_xlsx \notin DOMAIN fs
       THEN /\ Exit(2, "Error: input xlsx not found")
            /\ ops' = ops \o <<Op("exists", args.input_xlsx)>>
            /\ UNCHANGED <<mask_df, mask_bool>>
       ELSE IF args.mask_csv \notin DOMAIN fs
       THEN /\ Exit(2, "Error: mask csv not found")
            /\ ops' = ops \o <<Op("exists", args.input_xlsx), Op("exists", args.mask_csv)>>
            /\ UNCHANGED <<mask_df, mask_bool>>
       ELSE IF ~CsvParses(fs[args.mask_csv])
       THEN /\ Exit(2, "Error reading mask CSV")
            /\ ops' = ops \o <<Op("exists", args.input_xlsx), Op("exists", args.mask_csv),
                               Op("read", args.mask_csv)>>
            /\ UNCHANGED <<mask_df, mask_bool>>
       ELSE /\ mask_df' = read_csv(fs[args.mask_csv])
            /\ mask_bool' = applymap_is_one(read_csv(fs[args.mask_csv]))
            /\ ops' = ops \o <<Op("exists", args.input_xlsx), Op("exists", args.mask_csv),
                               Op("read", args.mask_csv)>>
            /\ pc' = "load"
            /\ UNCHANGED <<out, exit>>
    /\ UNCHANGED <<fs, now, runs, args, wb, backup_path, consulted, fs0, prev, backups, cf_failed, now0, v, ret, lp, cand>>

\* line 94: the mask is smaller than the sheet
MaskSmaller(ws, mb) ==
    csv_rows_of(mb) < max_row(ws) \/ csv_cols_of(mb) < max_column(ws)

Load_eager_backup ==
    /\ pc = "load"
    /\ ops' = ops \o <<Op("copy", DefaultBackup(args.input_xlsx)), Op("read", args.input_xlsx)>>
    /\ fs' = Put(fs, DefaultBackup(args.input_xlsx), fs[args.input_xlsx])
    /\ LET f == fs[args.input_xlsx]
       IN  IF f.kind # "xlsx"
           THEN /\ Exit(1, "Traceback: load_workbook")
                /\ UNCHANGED wb
           ELSE IF bad_sheet_index(args.sheet_index, Len(f.sheets))
           THEN /\ Exit(2, "Invalid sheet index")
                /\ wb' = [loaded |-> TRUE, sheets |-> f.sheets]
           ELSE /\ wb' = [loaded |-> TRUE, sheets |-> f.sheets]
                /\ out' = out
                /\ pc' = "cf"
                /\ UNCHANGED exit
    /\ UNCHANGED <<now, runs, args, mask_df, mask_bool, backup_path, consulted,
                   fs0, prev, backups, cf_failed, now0, v, ret, lp, cand>>

\* lines 83-96: load_workbook, the sheet index check and the size warning.
\* A file that is no workbook makes load_workbook raise: the run ends with a
\* traceback and status 1.
Load ==
    /\ pc = "load"
    /\ ops' = Append(ops, Op("read", args.input_xlsx))
    /\ LET f == fs[args.input_xlsx]
       IN  IF f.kind # "xlsx"
           THEN /\ Exit(1, "Traceback: load_workbook")
                /\ UNCHANGED wb
           ELSE IF bad_sheet_index(args.sheet_index, Len(f.sheets))
           THEN /\ Exit(2, "Invalid sheet index")
                /\ wb' = [loaded |-> TRUE, sheets |-> f.sheets]
           ELSE /\ wb' = [loaded |-> TRUE, sheets |-> f.sheets]
                /\ out' = IF MaskSmaller(f.sheets[sheet_at(args.sheet_index, Len(f.sheets))],
                                         mask_bool)
                          THEN Append(out, "Warning: mask CSV shape is smaller than sheet")
                          ELSE out
                /\ pc' = "cf"
                /\ UNCHANGED exit
    /\ UNCHANGED <<fs, now, runs, args, mask_df, mask_bool, backup_path, consulted,
                   fs0, prev, backups, cf_failed, now0, v, ret, lp, cand>>

ClearCF_fatal ==
    /\ pc = "cf"
    /\ \E cfok \in BOOLEAN :
         LET n == sheet_at(args.sheet_index, Len(wb.sheets))
         IN  /\ wb' = [wb EXCEPT !.sheets[n] = clear_cf(wb.sheets[n], cfok)]
             /\ cf_failed' = ~cfok
             /\ IF cfok
                THEN pc' = "fills" /\ UNCHANGED <<out, exit>>
                ELSE Exit(1, "Traceback: conditional_formatting")
    /\ UNCHANGED <<fs, now, runs, args, mask_df, mask_bool, backup_path, consulted, ops,
                   fs0, prev, backups, now0, v, ret, lp, cand>>

\* lines 98-107: the conditional formatting of the sheet is cleared; if the
\* clearing raises, the exception is swallowed and the rules stay
ClearCF ==
    /\ pc = "cf"
    /\ \E cfok \in BOOLEAN :
         LET n == sheet_at(args.sheet_index, Len(wb.sheets))
         IN  /\ wb' = [wb EXCEPT !.sheets[n] = clear_cf(wb.sheets[n], cfok)]
             /\ cf_failed' = ~cfok
    /\ pc' = "fills"
    /\ UNCHANGED <<fs, now, runs, args, mask_df, mask_bool, backup_path, out, exit,
                   consulted, ops, fs0, prev, backups, now0, v, ret, lp, cand>>

\* lines 98-104 when nothing raises: the rules are cleared
ClearCFOk == ClearCF /\ ~cf_failed'

\* lines 109-144: every cell of the sheet gets its fill
ApplyFills ==
    /\ pc = "fills"
    /\ LET n == sheet_at(args.sheet_index, Len(wb.sheets))
           ws == wb.sheets[n]
       IN  /\ wb' = [wb EXCEPT !.sheets[n] =
                       apply_fills(ws, args.mask_col_offset, mask_bool)]
           /\ consulted' = [r \in 1..max_row(ws) |-> [c \in 1..max_column(ws) |->
                               consulted_of(r, c, args.mask_col_offset, mask_bool)]]
    /\ pc' = "save"
    /\ UNCHANGED <<fs, now, runs, args, mask_df, mask_bool, backup_path, out, exit, ops,
                   fs0, prev, backups, cf_failed, now0, v, ret, lp, cand>>

\* wb.save(path) in run g
Serialize(g) == XlsxFile(g, wb.sheets)

\* lines 147-150: wb.save to the explicit output path
SaveOutput ==
    /\ pc = "save"
    /\ HasOutput(args)
    /\ fs' = Put(fs, args.output_xlsx, Serialize(runs))
    /\ ops' = Append(ops, Op("save", args.output_xlsx))
    /\ Exit(0, "Saved updated workbook")
    /\ UNCHANGED <<now, runs, args, mask_df, mask_bool, wb, backup_path, consulted,
                   fs0, prev, backups, cf_failed, now0, v, ret, lp, cand>>

\* line 149 raising (OSError): the file is untouched or left partly written
SaveOutputFails ==
    /\ pc = "save"
    /\ HasOutput(args)
    /\ \E partial \in BOOLEAN :
         fs' = IF partial THEN Put(fs, args.output_xlsx, PartialFile(runs)) ELSE fs
    /\ ops' = Append(ops, Op("save", args.output_xlsx))
    /\ Exit(1, "Traceback: save")
    /\ UNCHANGED <<now, runs, args, mask_df, mask_bool, wb, backup_path, consulted,
                   fs0, prev, backups, cf_failed, now0, v, ret, lp, cand>>

Backup_skipped ==
    /\ pc = "save"
    /\ ~HasOutput(args)
    /\ backup_path' = ChooseBackup(args.input_xlsx, fs, now)
    /\ ops' = ops \o <<Op("exists", DefaultBackup(args.input_xlsx))>>
    /\ pc' = "overwrite"
    /\ UNCHANGED <<fs, now, runs, args, mask_df, mask_bool, wb, out, exit, consulted,
                   fs0, prev, backups, cf_failed, now0, v, ret, lp, cand>>

Backup_if_flag ==
    /\ pc = "save"
    /\ ~HasOutput(args)
    /\ LET bp == ChooseBackup(args.input_xlsx, fs, now)
       IN  /\ backup_path' = bp
           /\ fs' = IF args.backup THEN Put(fs, bp, fs[args.input_xlsx]) ELSE fs
           /\ ops' = ops \o <<Op("exists", DefaultBackup(args.input_xlsx))>>
                         \o (IF args.backup THEN <<Op("copy", bp)>> ELSE <<>>)
           /\ backups' = IF args.backup
                         THEN backups \cup {[path |-> bp, input |-> args.input_xlsx,
                                             run |-> runs]}
                         ELSE backups
    /\ pc' = "overwrite"
    /\ UNCHANGED <<now, runs, args, mask_df, mask_bool, wb, out, exit, consulted,
                   fs0, prev, cf_failed, now0, v, ret, lp, cand>>

\* lines 151-158: the backup path is chosen and the input copied to it
Backup ==
    /\ pc = "save"
    /\ ~HasOutput(args)
    /\ LET bp == ChooseBackup(args.input_xlsx, fs, now)
       IN  /\ backup_path' = bp
           /\ fs' = Put(fs, bp, fs[args.input_xlsx])
           /\ ops' = ops \o <<Op("exists", DefaultBackup(args.input_xlsx)), Op("copy", bp)>>
           /\ backups' = backups \cup {[path |-> bp, input |-> args.input_xlsx, run |-> runs]}
    /\ pc' = "overwrite"
    /\ UNCHANGED <<now, runs, args, mask_df, mask_bool, wb, out, exit, consulted,
                   fs0, prev, cf_failed, now0, v, ret, lp, cand>>

\* line 158 raising (OSError): the backup is untouched or left partly written
BackupFails ==
    /\ pc = "save"
    /\ ~HasOutput(args)
    /\ LET bp == ChooseBackup(args.input_xlsx, fs, now)
       IN  /\ backup_path' = bp
           /\ \E partial \in BOOLEAN :
                fs' = IF partial THEN Put(fs, bp, PartialFile(runs)) ELSE fs
           /\ ops' = ops \o <<Op("exists", DefaultBackup(args.input_xlsx)), Op("copy", bp)>>
    /\ Exit(1, "Traceback: copy2")
    /\ UNCHANGED <<now, runs, args, mask_df, mask_bool, wb, consulted,
                   fs0, prev, backups, cf_failed, now0, v, ret, lp, cand>>

\* lines 159-160: wb.save over the input
Overwrite ==
    /\ pc = "overwrite"
    /\ fs' = Put(fs, args.input_xlsx, Serialize(runs))
    /\ ops' = Append(ops, Op("save", args.input_xlsx))
    /\ Exit(0, "Overwrote input; backup saved")
    /\ UNCHANGED <<now, runs, args, mask_df, mask_bool, wb, backup_path, consulted,
                   fs0, prev, backups, cf_failed, now0, v, ret, lp, cand>>

\* line 159 raising (OSError): the input is untouched or left partly written
OverwriteFails ==
    /\ pc = "overwrite"
    /\ \E partial \in BOOLEAN :
         fs' = IF partial THEN Put(fs, args.input_xlsx, PartialFile(runs)) ELSE fs
    /\ ops' = Append(ops, Op("save", args.input_xlsx))
    /\ Exit(1, "Traceback: save")
    /\ UNCHANGED <<now, runs, args, mask_df, mask_bool, wb, backup_path, consulted,
                   fs0, prev, backups, cf_failed, now0, v, ret, lp, cand>>

\* time.time() advances by a second.  The clock is read at line 156 only, so
\* letting it advance between runs gives every value a run can read.
Tick ==
    /\ pc \in {"idle", "done"}
    /\ now < MaxClock
    /\ now' = now + 1
    /\ UNCHANGED <<fs, runs, pc, args, mask_df, mask_bool, wb, backup_path, out, exit,
                   consulted, ops, fs0, prev, backups, cf_failed, now0, v, ret, lp, cand>>

Next ==
    \/ BeginAny
    \/ Validate
    \/ Load
    \/ ClearCF
    \/ ApplyFills
    \/ SaveOutput
    \/ SaveOutputFails
    \/ Backup
    \/ BackupFails
    \/ Overwrite
    \/ OverwriteFails
    \/ Tick

Spec == Init /\ [][Next]_vars

NextGrid ==
    \/ BeginGrid
    \/ BeginAgain
    \/ Validate
    \/ Load
    \/ ClearCFOk
    \/ ApplyFills
    \/ SaveOutput
    \/ Backup
    \/ Overwrite

SpecGrid == InitGrid /\ [][NextGrid]_vars

(***************************************************************************)
(* is_one on its own: every value of the test set is passed to it once.    *)
(***************************************************************************)
Alphabet == {" ", "1", "0", "."}
TestStrings == UNION {[1..n -> Alphabet] : n \in 0..MaxLen}
TestValues ==
    {StrV(s) : s \in TestStrings} \cup {IntV(n) : n \in 0..2}
    \cup {FloatV(n) : n \in 0..2} \cup {NaN, None}

InitIsOne ==
    /\ fs = <<>>
    /\ InitRun
    /\ v \in TestValues
    /\ ret = <<>>

CallIsOne ==
    /\ ret = <<>>
    /\ ret' = <<is_one(v)>>
    /\ UNCHANGED <<runVars, v, lp, cand>>

SpecIsOne == InitIsOne /\ [][CallIsOne]_vars

(***************************************************************************)
(* src/project/project_2_form.py: the cargo_flow constraints are added and *)
(* candidate assignments are tested against them.                          *)
(***************************************************************************)
InitCargo ==
    /\ fs = <<>>
    /\ InitRun
    /\ v = None
    /\ ret = <<>>

NextCargo ==
    \/ CargoFlowStep
    \/ BoundsStep
    \/ Optimize

SpecCargo == InitCargo /\ [][NextCargo]_vars

(***************************************************************************)
(* The claims.  What a claim says is written from its words: the mask      *)
(* value a cell maps to, the colour a text stands for.                     *)
(***************************************************************************)
Succeeded == pc = "done" /\ exit = <<0>>

\* the target sheet in the file the run wrote, and in the input it read
OutSheet == fs[OutPath(args)].sheets[args.sheet_index + 1]
InSheet == fs0[args.input_xlsx].sheets[args.sheet_index + 1]

Cells(ws) == {rc \in (1..Len(ws.value)) \X (1..Len(ws.value[1])) : TRUE}

\* The mask column sheet column c maps to, and whether (r, c) maps inside the mask.
MappedCol(c) == (c - 1) + args.mask_col_offset
MapsInside(r, c) ==
    /\ r - 1 < Len(mask_df)
    /\ MappedCol(c) >= 0
    /\ MappedCol(c) < Len(mask_df[1])

\* The mapped mask value of sheet cell (r, c) is "one".
MappedOne(r, c) ==
    /\ MapsInside(r, c)
    /\ Strip(PyStr(mask_df[r][MappedCol(c) + 1])) = sOne

LightGreen  == PatternFill("solid", "FFC6EFCE")
LightRed    == PatternFill("solid", "FFFFC7CE")
LightYellow == PatternFill("solid", "FFFFEB9C")
LightGrey   == PatternFill("solid", "FFD9D9D9")

\* The fill the colour policy gives a cell value.
PolicyFill(x) ==
    LET s == IF x.k = "none" THEN <<>> ELSE Lower(Strip(PyStr(x)))
    IN  CASE s = sYes      -> LightGreen
          [] s = sNo       -> LightRed
          [] s = sMaybe    -> LightYellow
          [] s = sConflict -> LightGrey
          [] OTHER         -> empty_fill

\* C1: after a successful run every sheet cell whose mapped mask value is not
\* "one", cells that map outside the mask included, has no fill in the file
\* written, whatever its prior fill and its text.
C1_NotOneCleared ==
    Succeeded =>
        \A rc \in Cells(OutSheet) :
            ~MappedOne(rc[1], rc[2]) => OutSheet.fill[rc[1]][rc[2]] = empty_fill

\* C1 witness: a cell with text "Yes" and a blue fill, mapped outside the mask
\* or to a value that is not one, ends with no fill.
C1_Witness ==
    /\ Succeeded
    /\ \E rc \in Cells(OutSheet) :
         /\ ~MappedOne(rc[1], rc[2])
         /\ InSheet.fill[rc[1]][rc[2]] = Blue
         /\ InSheet.value[rc[1]][rc[2]] = StrV(sYesCap)
         /\ OutSheet.fill[rc[1]][rc[2]] = empty_fill

C3_IsOneIffTrimmedOne ==
    ret # <<>> =>
        /\ ret[1] = (Strip(PyStr(v)) = sOne)
        /\ v \in {IntV(1), StrV(sOne), StrV(sOnePad)} => ret[1]
        /\ v \in {StrV(sOneDot), StrV(sEmpty), NaN, None, FloatV(1)} => ~ret[1]

\* C3 witness: is_one(" 1 ") has returned True.
C3_Witness == v = StrV(sOnePad) /\ ret = <<TRUE>>

\* C4: for every sheet cell (r, c) and offset, the mask cell read is
\* (r-1, (c-1)+offset); when that row or column is past the mask or the column
\* is negative, no mask cell is read and the cell gets no fill.
C4_MaskCellConsulted ==
    consulted # <<>> =>
        \A rc \in Cells(wb.sheets[args.sheet_index + 1]) :
            LET r == rc[1]
                c == rc[2]
                mc == (c - 1) + args.mask_col_offset
            IN  IF r - 1 >= Len(mask_bool) \/ mc >= Len(mask_bool[1]) \/ mc < 0
                THEN /\ consulted[r][c] = <<>>
                     /\ wb.sheets[args.sheet_index + 1].fill[r][c] = empty_fill
                ELSE consulted[r][c] = <<r - 1, mc>>

\* C4 witness: with a negative offset the first column reads no mask cell and
\* the second column reads mask column 0; and the last row is past the mask.
C4_Witness ==
    /\ consulted # <<>>
    /\ args.mask_col_offset < 0
    /\ consulted[1][1] = <<>>
    /\ consulted[1][2] = <<0, 0>>
    /\ consulted[MaxRow][2] = <<>>
    /\ InSheet.fill[1][1] = Blue

\* C4 witness for a positive offset: the last column maps past the mask.
C4_WitnessPositive ==
    /\ consulted # <<>>
    /\ args.mask_col_offset > 0
    /\ consulted[1][1] = <<0, args.mask_col_offset>>
    /\ consulted[1][MaxCol] = <<>>

\* The run reads the file the run before it wrote, with the same mask,
\* offset and sheet.
SecondRun ==
    /\ prev.valid
    /\ args.input_xlsx = prev.outpath
    /\ args.mask_csv = prev.args.mask_csv
    /\ args.mask_col_offset = prev.args.mask_col_offset
    /\ args.sheet_index = prev.args.sheet_index

\* C5: a second run on the output of a first run, with the same mask and
\* offset, leaves the fills the first run left.
C5_SecondRunSameFills ==
    (Succeeded /\ SecondRun) => OutSheet.fill = prev.fill

\* C5 witness: the second run has ended, the first run had changed fills (it
\* cleared a blue cell and coloured another), and the fills are the same.
C5_Witness ==
    /\ Succeeded
    /\ SecondRun
    /\ OutSheet.fill = prev.fill
    /\ \E rc \in Cells(OutSheet) :
         prev.fill[rc[1]][rc[2]] \notin {empty_fill, Blue}
    /\ \E rc \in Cells(OutSheet) :
         prev.fill[rc[1]][rc[2]] = empty_fill /\ OutSheet.value[rc[1]][rc[2]] = StrV(sOther)

\* The bytes of the input file when the run started.
Original == fs0[args.input_xlsx]

\* p is the default backup path of the input or a timestamped variant of it.
IsBackupPath(p) ==
    \/ p = Stem(args.input_xlsx) \o <<"bak", "xlsx">>
    \/ \E ts \in 0..MaxClock : p = Stem(args.input_xlsx) \o <<"bak", ToString(ts), "xlsx">>

\* C6: after a successful run, either the explicit output path exists and the
\* input file still has its original bytes, or a backup file (default name or
\* timestamped) holds the original bytes; for every input and output path, an
\* output path that names the input included.
C6_OriginalRecoverable ==
    Succeeded =>
        \/ /\ HasOutput(args)
           /\ args.output_xlsx \in DOMAIN fs
           /\ fs[args.input_xlsx] = Original
        \/ \E p \in DOMAIN fs : IsBackupPath(p) /\ fs[p] = Original

\* C7: over a sequence of overwrite-mode runs on the same input path, no step
\* of a run changes or removes a backup file an earlier run wrote for that
\* input.
C7_BackupsKept ==
    [][\A b \in backups :
          (~HasOutput(args) /\ args.input_xlsx = b.input /\ b.run < runs)
              => (b.path \in DOMAIN fs' /\ fs'[b.path] = fs[b.path])]_vars

\* The run has copied the input to its backup path and then tested that the
\* backup exists.
BackupVerified ==
    \E i \in 1..Len(ops), j \in 1..Len(ops) :
        /\ i < j
        /\ ops[i] = Op("copy", backup_path)
        /\ ops[j] = Op("exists", backup_path)

\* C8 as stated: when the overwrite of the input begins, the backup has been
\* written and then verified present on disk.
C8_BackupVerifiedBeforeOverwrite ==
    pc = "overwrite" => BackupVerified

\* C8 as amended: in overwrite mode the copy to the backup path has returned
\* before wb.save on the input is called, and when the overwrite begins the
\* backup is on disk with the original bytes and the input is still untouched;
\* the run makes no separate test that the backup exists.
C8_BackupCompleteBeforeOverwrite ==
    /\ pc = "overwrite" =>
          /\ backup_path \in DOMAIN fs
          /\ fs[backup_path] = Original
          /\ fs[args.input_xlsx] = Original
    /\ ~HasOutput(args) =>
          \A k \in 1..Len(ops) :
              ops[k] = Op("save", args.input_xlsx) =>
                  /\ k > 1
                  /\ ops[k - 1] = Op("copy", backup_path)
                  /\ ~BackupVerified

\* C8 witness: the overwrite has been done, after the copy, in a run that
\* found the default backup on disk and wrote a timestamped one; the backup
\* holds the original bytes.
C8_Witness ==
    /\ Succeeded
    /\ ~HasOutput(args)
    /\ ops[Len(ops)] = Op("save", args.input_xlsx)
    /\ backup_path = StampedBackup(args.input_xlsx, now)
    /\ fs[backup_path] = Original
    /\ fs[args.input_xlsx] # Original

\* The run's input is missing, its mask is missing or cannot be parsed, or its
\* sheet index is negative or not below the number of sheets.
InvalidRun ==
    \/ args.input_xlsx \notin DOMAIN fs0
    \/ args.mask_csv \notin DOMAIN fs0
    \/ fs0[args.mask_csv].kind # "csv"
    \/ \A i \in 1..Len(fs0[args.mask_csv].grid) :
          fs0[args.mask_csv].grid[i] \in {<<>>, <<sEmpty>>}
    \/ \E i \in 1..Len(fs0[args.mask_csv].grid) :
          Len(fs0[args.mask_csv].grid[i]) > Len(fs0[args.mask_csv].grid[1])
    \/ args.sheet_index < 0
    \/ args.sheet_index >= NumSheets

\* C9: such a run prints an error, exits with a non-zero status, and at no
\* point creates or modifies a file.
C9_InvalidRunWritesNothing ==
    (pc # "idle" /\ InvalidRun) =>
        /\ fs = fs0
        /\ pc \notin {"save", "overwrite"}
        /\ pc = "done" => (exit # <<0>> /\ exit # <<>> /\ out # <<>>)

\* C9 witness: a run whose sheet index equals the number of sheets, on an
\* input and a mask that are fine, has exited with status 2 and a message.
C9_Witness ==
    /\ pc = "done"
    /\ args.sheet_index = NumSheets
    /\ args.input_xlsx \in DOMAIN fs0
    /\ fs0[args.input_xlsx].kind = "xlsx"
    /\ mask_bool # <<>>
    /\ exit = <<2>>
    /\ out = <<"Invalid sheet index">>
    /\ fs = fs0

Failed == pc = "done" /\ exit # <<0>>

\* C10 as stated: no run has failed with a file written by it (output or
\* backup) on disk.
C10_FailedRunWroteNothing ==
    Failed => fs = fs0

\* C10 as amended: a run that fails before the save phase (lines 146-160) has
\* written no file; a failed run has a file of its own on disk only when
\* shutil.copy2 or wb.save raised, and then it exited with status 1 after
\* that call.
C10_FailedRunWroteOnlyInSavePhase ==
    (Failed /\ fs # fs0) =>
        /\ exit = <<1>>
        /\ ops # <<>>
        /\ ops[Len(ops)].op \in {"copy", "save"}
        /\ \A p \in DOMAIN fs :
              (p \notin DOMAIN fs0 \/ fs[p] # fs0[p]) => p \in {backup_path, OutPath(args)}

\* C10 witness: an overwrite-mode run has failed in wb.save after its backup
\* copy: the backup, which was not there before, is on disk.
C10_Witness ==
    /\ Failed
    /\ ~HasOutput(args)
    /\ backup_path \notin DOMAIN fs0
    /\ backup_path \in DOMAIN fs
    /\ fs[backup_path] = Original
    /\ ops[Len(ops)] = Op("save", args.input_xlsx)

(***************************************************************************)
(* C11.  The files a successful run writes.                                *)
(***************************************************************************)
\* The paths of the calls of one kind made by the current run, in order.
PathsOf(kind) ==
    LET sel == SelectSeq(ops, LAMBDA o : o.op = kind)
    IN  [k \in 1..Len(sel) |-> sel[k].path]

\* The files whose content differs from what was on disk when the run began.
Changed == {p \in DOMAIN fs : p \notin DOMAIN fs0 \/ fs[p] # fs0[p]}

\* C11: a successful run makes exactly one wb.save, to the explicit output
\* path if there is one and to the input path otherwise; in overwrite mode it
\* makes exactly one backup copy, with or without --backup; with an explicit
\* output path it makes none; and no other file is touched.
C11_OneOutputOneBackup ==
    Succeeded =>
        /\ PathsOf("save") = <<OutPath(args)>>
        /\ HasOutput(args) => PathsOf("copy") = <<>>
        /\ ~HasOutput(args) =>
              /\ PathsOf("copy") = <<backup_path>>
              /\ backup_path \in DOMAIN fs
              /\ backup_path # args.input_xlsx
        /\ Changed \subseteq ({OutPath(args)} \cup
                                (IF HasOutput(args) THEN {} ELSE {backup_path}))

\* An overwrite run without --backup that has written its backup and the input.
C11_Witness ==
    /\ Succeeded
    /\ ~HasOutput(args)
    /\ ~args.backup
    /\ PathsOf("copy") = <<backup_path>>
    /\ Changed = {args.input_xlsx, backup_path}

(***************************************************************************)
(* C12.  Cell values.                                                      *)
(***************************************************************************)
\* The values of the cells of every sheet of a workbook.
ValuesOf(sheets) == [k \in 1..Len(sheets) |-> sheets[k].value]

\* C12: a run changes no cell's value: the workbook in memory always has the
\* values of the input file, the file a successful run writes has them too,
\* and in that file only the fills and the conditional formatting of the
\* target sheet may differ from the input.
C12_ValuesUnchanged ==
    /\ wb.loaded => ValuesOf(wb.sheets) = ValuesOf(Original.sheets)
    /\ Succeeded =>
          LET o == fs[OutPath(args)].sheets
              i == Original.sheets
          IN  /\ ValuesOf(o) = ValuesOf(i)
              /\ \A k \in 1..Len(i) :
                    k # sheet_at(args.sheet_index, Len(i)) => o[k] = i[k]

\* A successful run that changed fills and removed the conditional formatting
\* and left a text that is not in normal form as it was.
C12_Witness ==
    /\ Succeeded
    /\ OutSheet.fill # InSheet.fill
    /\ InSheet.cf /\ ~OutSheet.cf
    /\ OutSheet.value[1][1] = StrV(sYesCap)
    /\ OutSheet.value = InSheet.value

(***************************************************************************)
(* C13.  The docstring's preserve-original mode.                           *)
(***************************************************************************)
\* C13: after a successful run every sheet cell whose mapped mask value is
\* "one" has the fill it had in the input; only the other cells are cleared.
C13_OneKeepsFill ==
    Succeeded =>
        \A rc \in Cells(OutSheet) :
            MappedOne(rc[1], rc[2]) =>
                OutSheet.fill[rc[1]][rc[2]] = InSheet.fill[rc[1]][rc[2]]

(***************************************************************************)
(* C14.  Conditional formatting.                                           *)
(***************************************************************************)
\* The target sheet of the workbook in memory.
TargetSheet == wb.sheets[sheet_at(args.sheet_index, Len(wb.sheets))]

\* The fill lines 128-144 give sheet cell (r, c).
ExpectedFill(r, c) ==
    IF MappedOne(r, c) THEN PolicyFill(TargetSheet.value[r][c]) ELSE empty_fill

\* C14: when the fills are about to be set the conditional formatting of the
\* target sheet has been removed, unless removing it raised, and no fill has
\* been touched yet; a failed removal does not end the run: every cell is
\* then given its fill all the same, a run whose removal failed ends only in
\* success or in an error of the copy or the save, and the file a successful
\* run writes has the fills (and, after a failed removal, the old rules).
C14_CfRemovedFailureNotFatal ==
    /\ pc = "fills" =>
          /\ TargetSheet.cf = (cf_failed /\ InSheet.cf)
          /\ TargetSheet.fill = InSheet.fill
    /\ (pc \in {"save", "overwrite"} \/ Succeeded) =>
          /\ TargetSheet.cf = (cf_failed /\ InSheet.cf)
          /\ \A rc \in Cells(TargetSheet) :
                TargetSheet.fill[rc[1]][rc[2]] = ExpectedFill(rc[1], rc[2])
    /\ Succeeded => OutSheet = TargetSheet
    /\ (Failed /\ cf_failed) =>
          /\ ops # <<>>
          /\ ops[Len(ops)].op \in {"copy", "save"}

\* A run whose removal of the rules failed has succeeded: the file written has
\* the new fills and still has the rules.
C14_Witness ==
    /\ Succeeded
    /\ cf_failed
    /\ InSheet.cf /\ OutSheet.cf
    /\ OutSheet.fill # InSheet.fill
    /\ \A rc \in Cells(OutSheet) :
          OutSheet.fill[rc[1]][rc[2]] = ExpectedFill(rc[1], rc[2])

\* A run whose removal of the rules succeeded has written a file without them.
C14_WitnessRemoved ==
    /\ Succeeded
    /\ ~cf_failed
    /\ InSheet.cf /\ ~OutSheet.cf

(***************************************************************************)
(* C15.  --fill-color.                                                     *)
(***************************************************************************)
\* Two command lines that differ at most in --fill-color.
SameButFillColor(a, b) == [a EXCEPT !.fill_color = b.fill_color] = b

\* The run and the successful run before it had command lines that differ at
\* most in --fill-color and met the same environment: they read the same
\* sheets from the input file, clearing the conditional formatting raised in
\* both or in neither and, in overwrite mode, the default backup was on disk
\* for both or for neither and the clock was the same.
SameRunButFillColor ==
    /\ prev.valid
    /\ SameButFillColor(prev.args, args)
    /\ prev.read = Original.sheets
    /\ prev.cf_failed = cf_failed
    /\ ~HasOutput(args) =>
          /\ prev.bak_exists = (DefaultBackup(args.input_xlsx) \in DOMAIN fs0)
          /\ prev.bak_exists => prev.now = now0

C16_CargoBalance ==
    (cand.set /\ cand.cargo_ok) =>
        \A k \in Keys :
            cand.a[XVar(k[1], k[2], k[3])] =
                cand.a[XVar(k[1], k[2], prev_day(k[3]))]
                + cargo_demand[k] - cand.a[WVar(k[1], k[2], k[3])]

====
